---- MODULE Spec2Model ----
(***************************************************************************)
(* A model of gbam's columnar writer (gbam_tools/src/writer.rs) and of its *)
(* depth query (gbam_tools/src/query/depth.rs).                            *)
(*                                                                         *)
(* Byte buffers are modelled by their lengths, the sink by its cursor and  *)
(* the log of the writes made to it.  Sizes are scaled down: SIZE_LIMIT is *)
(* 8 bytes here, so that a handful of records fills several blocks.        *)
(***************************************************************************)
EXTENDS Integers, Sequences, FiniteSets, TLC

\* ------------------------------------------------------------------------
\* Bounds of the model
\* ------------------------------------------------------------------------
MaxRecords == 3
MaxThreads == 2
MaxTagLen == 12
MaxRefs == 2
MaxRefLen == 3
MaxReads == 2
MaxBlockItems == 2

\* ------------------------------------------------------------------------
\* Program constants
\* ------------------------------------------------------------------------
SIZE_LIMIT == 8
U32_SIZE == 4
FILE_INFO_SIZE == 16
RingCap == 8
\* The checksum below is kept to 16 bits (the model checker's integers are
\* 32 bits wide).
CrcModulus == 2 ^ 16

\* ------------------------------------------------------------------------
\* Small helpers
\* ------------------------------------------------------------------------
Max(a, b) == IF a >= b THEN a ELSE b

Min(a, b) == IF a <= b THEN a ELSE b

Range(s) == {s[i] : i \in 1..Len(s)}

RECURSIVE SumSeq(_)
SumSeq(s) == IF Len(s) = 0 THEN 0 ELSE s[1] + SumSeq(Tail(s))

\* All orders in which the elements of a finite set can be listed.
RECURSIVE Perms(_)
Perms(S) ==
    IF S = {} THEN {<<>>}
    ELSE UNION {{<<x>> \o p : p \in Perms(S \ {x})} : x \in S}

\* ------------------------------------------------------------------------
\* Field catalog (the fields the model keeps, in Fields::iterator() order)
\* ------------------------------------------------------------------------
Fields == <<"RefID", "Pos", "RawTags", "RawTagsLen">>

FieldSet == Range(Fields)

FieldNo(f) == CHOOSE i \in 1..Len(Fields) : Fields[i] = f

is_data_field(f) == f # "RawTagsLen"

field_type(f) == IF f = "RawTags" THEN "VariableSized" ELSE "FixedSized"

var_size_field_to_index(f) == "RawTagsLen"

DataFields == SelectSeq(Fields, is_data_field)

\* Lengths a record's auxiliary-tag region takes in the model: empty, one
\* word, and longer than a block.
TagLens == {0, U32_SIZE, MaxTagLen}

\* get_bytes with Pos sliced two bytes wide.
get_bytes_narrow_pos(record, f) ==
    CASE f = "RefID" -> U32_SIZE
      [] f = "Pos" -> U32_SIZE \div 2
      [] f = "RawTags" -> record.tags

\* RawRecord::get_bytes, by length: the record is [tags |-> length of the
\* tag region]; the fixed header fields modelled here are 4 bytes wide.
get_bytes(record, f) ==
    CASE f = "RefID" -> U32_SIZE
      [] f = "Pos" -> U32_SIZE
      [] f = "RawTags" -> record.tags

\* ------------------------------------------------------------------------
\* Compressor pool
\* ------------------------------------------------------------------------
Codecs == {"Store", "Half"}

\* The codec as an opaque transform of a buffer's length: "Store" adds a
\* byte of framing, "Half" halves.
CompressedLen(codec, n) ==
    IF codec = "Store" THEN n + 1 ELSE (n + 1) \div 2

\* The task the pool is primed with: nothing to write.
Sentinel ==
    [ordering_key |-> 0, field |-> "RefID", num_items |-> 0,
     uncompr_size |-> 0, buf |-> 0]

Compressor_new(thread_num) ==
    [primed |-> thread_num, pending |-> {},
     submitted |-> [f \in FieldSet |-> <<>>]]

\* What get_compr_block can hand back: a priming sentinel while any is
\* left (they head the completion queue), then any submitted block that
\* has not been handed back yet (the workers finish in any order).
Fetchable(c) == IF c.primed > 0 THEN {Sentinel} ELSE c.pending

get_compr_block(c, t) ==
    IF c.primed > 0
    THEN [c EXCEPT !.primed = @ - 1]
    ELSE [c EXCEPT !.pending = @ \ {t}]

compress_block(c, ordering_key, field, num_items, uncompr_size, codec) ==
    LET task == [ordering_key |-> ordering_key, field |-> field,
                 num_items |-> num_items, uncompr_size |-> uncompr_size,
                 buf |-> CompressedLen(codec, uncompr_size)]
    IN [c EXCEPT !.pending = @ \cup {task},
                 !.submitted[field] = Append(@, task)]

\* Compressor::finish: the submitted blocks not handed back yet, in the
\* order the workers complete them.
Compressor_finish(c) == Perms(c.pending)

\* ------------------------------------------------------------------------
\* Writer
\* ------------------------------------------------------------------------
DefaultBlockMeta == [seekpos |-> 0, numitems |-> 0]

FileMeta_new(codec) ==
    [codec |-> codec,
     blocks |-> [f \in FieldSet |-> <<>>],
     block_sizes |-> [f \in FieldSet |-> <<>>]]

\* Vec::resize(n, fill) when n is at least the current length.
ResizeTo(s, n, fill) == s \o [i \in 1..(n - Len(s)) |-> fill]

\* v[k] = x for a 0-based k, after growing v to k + 1 entries if needed.
SetAt(v, k, x, fill) ==
    LET grown == IF Len(v) <= k THEN ResizeTo(v, k + 1, fill) ELSE v
    IN [grown EXCEPT ![k + 1] = x]

Writer_new(codec, thread_num) ==
    [chunks |-> [f \in FieldSet |-> SIZE_LIMIT],
     offsets |-> [f \in FieldSet |-> 0],
     num_items |-> [f \in FieldSet |-> 0],
     compressor |-> Compressor_new(thread_num),
     file_meta |-> FileMeta_new(codec),
     inner |-> [pos |-> FILE_INFO_SIZE, log |-> <<>>],
     blocks_nums |-> [f \in FieldSet |-> 0]]

\* An entry of the sink's log: `len` bytes written at offset `at`; `what`
\* is "block" (a compressed payload of `field` with ordering key `key`),
\* "meta" (the footer, `data` its bytes) or "info" (the FileInfo, `data`).
LogEntry(what, field, key, data) ==
    [at |-> 0, len |-> 0, what |-> what, field |-> field, key |-> key,
     data |-> data]

\* inner.write_all(bytes): the bytes land at the cursor, which moves on.
write_all(inner, len, entry) ==
    [pos |-> inner.pos + len,
     log |-> Append(inner.log, [entry EXCEPT !.at = inner.pos, !.len = len])]

\* generate_meta without the seek: every block is said to start where the
\* payload area starts.
generate_meta_no_seek(w, numitems) == [seekpos |-> FILE_INFO_SIZE, numitems |-> numitems]

generate_meta(w, numitems) == [seekpos |-> w.inner.pos, numitems |-> numitems]

write_data_and_update_meta(w, task) ==
    LET meta == generate_meta(w, task.num_items)
        compressed_size == task.buf
        inner == write_all(w.inner, compressed_size,
                           LogEntry("block", task.field, task.ordering_key, <<>>))
    IN [w EXCEPT
          !.inner = inner,
          !.file_meta.block_sizes[task.field] =
              SetAt(@, task.ordering_key, compressed_size, 0),
          !.file_meta.blocks[task.field] =
              SetAt(@, task.ordering_key, meta, DefaultBlockMeta)]

\* flush without its test for an empty field.
flush_unguarded(w, field, task) ==
    LET fetched == [w EXCEPT !.compressor = get_compr_block(@, task)]
        written == IF task.uncompr_size # 0
                   THEN write_data_and_update_meta(fetched, task)
                   ELSE fetched
    IN [written EXCEPT
          !.chunks[field] = task.buf,
          !.compressor = compress_block(@, w.blocks_nums[field], field,
                                        w.num_items[field], w.offsets[field],
                                        w.file_meta.codec),
          !.blocks_nums[field] = @ + 1,
          !.offsets[field] = 0,
          !.num_items[field] = 0]

\* Writer::flush with `task` the block the pool hands back.
flush(w, field, task) ==
    IF w.num_items[field] = 0 THEN w
    ELSE
      LET fetched == [w EXCEPT !.compressor = get_compr_block(@, task)]
          written == IF task.uncompr_size # 0
                     THEN write_data_and_update_meta(fetched, task)
                     ELSE fetched
      IN [written EXCEPT
            !.chunks[field] = task.buf,
            !.compressor = compress_block(@, w.blocks_nums[field], field,
                                          w.num_items[field], w.offsets[field],
                                          w.file_meta.codec),
            !.blocks_nums[field] = @ + 1,
            !.offsets[field] = 0,
            !.num_items[field] = 0]

\* Whether a call of flush takes a block from the pool.
Fetches(w, field) == w.num_items[field] # 0

\* The closure test taken at the limit: a block is closed as soon as the
\* item would fill it.
MustCloseAtLimit(w, field, len) ==
    w.offsets[field] > 0 /\ w.offsets[field] + len >= SIZE_LIMIT

\* The first test of update_field_buf.
MustClose(w, field, len) ==
    w.offsets[field] > 0 /\ w.offsets[field] + len > SIZE_LIMIT

\* update_field_buf up to the copy: the block is closed if it must be, the
\* chunk is resized if it is shorter than SIZE_LIMIT.
Prepared(w, field, len, task) ==
    LET closed == IF MustClose(w, field, len) THEN flush(w, field, task) ELSE w
    IN IF closed.chunks[field] < SIZE_LIMIT
       THEN [closed EXCEPT !.chunks[field] = Max(len, SIZE_LIMIT)]
       ELSE closed

\* The slice cur_chunk[offset..offset + len] lies inside the chunk.
CopyFits(p, field, len) == p.offsets[field] + len <= p.chunks[field]

update_field_buf(w, field, len, task) ==
    LET p == Prepared(w, field, len, task)
    IN [p EXCEPT !.offsets[field] = @ + len,
                 !.num_items[field] = @ + 1]

\* serde_json::to_string(&file_meta), as the sequence of the numbers it
\* holds: per field its number, its block count, every block's seekpos and
\* numitems, and the compressed block sizes.
RECURSIVE FlattenBlocks(_)
FlattenBlocks(bs) ==
    IF Len(bs) = 0 THEN <<>>
    ELSE <<bs[1].seekpos, bs[1].numitems>> \o FlattenBlocks(Tail(bs))

RECURSIVE MetaBytesFrom(_, _)
MetaBytesFrom(fm, i) ==
    IF i > Len(Fields) THEN <<>>
    ELSE <<i, Len(fm.blocks[Fields[i]])>>
         \o FlattenBlocks(fm.blocks[Fields[i]])
         \o fm.block_sizes[Fields[i]]
         \o MetaBytesFrom(fm, i + 1)

MetaBytes(fm) == MetaBytesFrom(fm, 1)

\* A checksum of a byte sequence (stands for CRC32).
RECURSIVE CrcFrom(_, _)
CrcFrom(h, bytes) ==
    IF Len(bytes) = 0 THEN h
    ELSE CrcFrom((h * 31 + bytes[1] + 1) % CrcModulus, Tail(bytes))

calc_crc_for_meta_bytes(bytes) == CrcFrom(7, bytes)

FileInfo_new(version, seekpos, crc32) ==
    [version |-> version, seekpos |-> seekpos, crc32 |-> crc32]

RECURSIVE WriteTasks(_, _)
WriteTasks(w, tasks) ==
    IF Len(tasks) = 0 THEN w
    ELSE WriteTasks(write_data_and_update_meta(w, tasks[1]), Tail(tasks))

\* finish_tail reading the seek position for meta_start after the footer
\* is written.
finish_tail_late_seek(w, tasks) ==
    LET drained == WriteTasks(w, tasks)
        main_meta_bytes == MetaBytes(drained.file_meta)
        crc32 == calc_crc_for_meta_bytes(main_meta_bytes)
        with_meta == write_all(drained.inner, Len(main_meta_bytes),
                               LogEntry("meta", "", 0, main_meta_bytes))
        meta_start_pos == with_meta.pos
        total_bytes_written == with_meta.pos
        rewound == [with_meta EXCEPT !.pos = 0]
        file_meta == FileInfo_new(<<1, 0>>, meta_start_pos, crc32)
        with_info == write_all(rewound, FILE_INFO_SIZE,
                               LogEntry("info", "", 0, file_meta))
    IN [writer |-> [drained EXCEPT !.inner = with_info],
        total |-> total_bytes_written]

\* Writer::finish after its flushes: `tasks` is what compressor.finish()
\* yields.  The result is the writer and the value returned.
finish_tail(w, tasks) ==
    LET drained == WriteTasks(w, tasks)
        meta_start_pos == drained.inner.pos
        main_meta_bytes == MetaBytes(drained.file_meta)
        crc32 == calc_crc_for_meta_bytes(main_meta_bytes)
        with_meta == write_all(drained.inner, Len(main_meta_bytes),
                               LogEntry("meta", "", 0, main_meta_bytes))
        total_bytes_written == with_meta.pos
        rewound == [with_meta EXCEPT !.pos = 0]
        file_meta == FileInfo_new(<<1, 0>>, meta_start_pos, crc32)
        with_info == write_all(rewound, FILE_INFO_SIZE,
                               LogEntry("info", "", 0, file_meta))
    IN [writer |-> [drained EXCEPT !.inner = with_info],
        total |-> total_bytes_written]

\* ------------------------------------------------------------------------
\* The writer as a state machine
\* ------------------------------------------------------------------------
VARIABLES
    writer,     \* the Writer
    pc,         \* "open", "done" (finish returned) or "panic"
    pushed,     \* number of records push_record has returned for
    reclog,     \* per payload appended to RawTags: its length and data block
    idxlog,     \* the values appended to RawTagsLen
    total       \* what finish returned

wvars == <<writer, pc, pushed, reclog, idxlog, total>>

VARIABLES
    gbam_file,              \* the file queried: header, records, RefID blocks
    queries,                \* the query regions per reference
    thread_num,             \* the thread_num option
    buffers,                \* the pool of coverage arrays
    circular_buf_channels,  \* the ring of worker handles
    idx,                    \* the ring slot of the iteration
    iter,                   \* references taken from ref_seqs so far
    printer,                \* the rows written
    dpc                     \* "start", "loop", "exit" or "panic"

dvars == <<gbam_file, queries, thread_num, buffers, circular_buf_channels,
           idx, iter, printer, dpc>>

VARIABLES
    raw,              \* the RawRecord: its header lengths and its byte length
    overflow_checks,  \* whether the build checks integer overflow
    asked,            \* the field last passed to get_bytes, "" before a call
    view              \* what that call gave: a slice of raw, or a panic

rvars == <<raw, overflow_checks, asked, view>>

vars == <<wvars, dvars, rvars>>

\* No record is taken apart next to the writer or the depth query.
RIdle ==
    /\ raw = [l_read_name |-> 0, n_cigar_op |-> 0, l_seq |-> 0, len |-> 0]
    /\ overflow_checks = TRUE
    /\ asked = ""
    /\ view = [panicked |-> FALSE, why |-> "", offset |-> 0, len |-> 0]

\* No depth query runs next to the writer.
DIdle ==
    /\ gbam_file = [n |-> 0, records |-> <<>>, numitems |-> 1, stats |-> FALSE]
    /\ queries = <<>>
    /\ thread_num = [some |-> FALSE, val |-> 0]
    /\ buffers = <<>>
    /\ circular_buf_channels = <<>>
    /\ idx = 0
    /\ iter = 0
    /\ printer = <<>>
    /\ dpc = "off"

\* The calls of update_field_buf that push_record makes, in order.
RECURSIVE CallsOf(_)
CallsOf(fs) ==
    IF Len(fs) = 0 THEN <<>>
    ELSE (IF field_type(fs[1]) = "VariableSized"
          THEN <<[field |-> fs[1], index_of |-> ""],
                 [field |-> var_size_field_to_index(fs[1]), index_of |-> fs[1]]>>
          ELSE <<[field |-> fs[1], index_of |-> ""]>>)
         \o CallsOf(Tail(fs))

\* push_record without the update of the index field.
PushCallsNoIndex ==
    [i \in 1..Len(DataFields) |-> [field |-> DataFields[i], index_of |-> ""]]

PushCalls == CallsOf(DataFields)

\* end_pos read as the item counter instead of the byte offset.
end_pos_items(w, field) == w.num_items[field]

\* end_pos as u32 (the model's offsets stay far below 2^32).
end_pos(w, field) == w.offsets[field]

\* The blocks the pool can hand to a call of flush (a placeholder when the
\* call takes none).
Handed(w, fetches) ==
    IF fetches THEN Fetchable(w.compressor) ELSE {Sentinel}

\* push_record from its i-th call of update_field_buf on: every outcome,
\* one per order in which the pool hands blocks back.  st is the writer with
\* the two logs; an outcome with panicked set stopped at an out-of-range copy.
RECURSIVE push_from(_, _, _)
push_from(st, record, i) ==
    IF i > Len(PushCalls) THEN {[st EXCEPT !.panicked = FALSE]}
    ELSE
      LET call == PushCalls[i]
          field == call.field
          len == IF call.index_of # "" THEN U32_SIZE ELSE get_bytes(record, field)
          w == st.writer
      IN UNION {
           IF CopyFits(Prepared(w, field, len, task), field, len)
           THEN LET w2 == update_field_buf(w, field, len, task)
                IN push_from(
                     [writer |-> w2,
                      panicked |-> FALSE,
                      reclog |-> IF field_type(field) = "VariableSized"
                                 THEN Append(st.reclog,
                                             [len |-> len,
                                              block |-> w2.blocks_nums[field]])
                                 ELSE st.reclog,
                      idxlog |-> IF call.index_of # ""
                                 THEN Append(st.idxlog, end_pos(w, call.index_of))
                                 ELSE st.idxlog],
                     record, i + 1)
           ELSE {[st EXCEPT !.writer = Prepared(w, field, len, task),
                            !.panicked = TRUE]}
           : task \in Handed(w, MustClose(w, field, len) /\ Fetches(w, field))}

push_record(w, rl, il, record) ==
    push_from([writer |-> w, panicked |-> FALSE, reclog |-> rl, idxlog |-> il],
              record, 1)

\* finish from the flush of the i-th field on: every outcome.
RECURSIVE finish_from(_, _)
finish_from(w, i) ==
    IF i > Len(Fields)
    THEN {finish_tail(w, tasks) : tasks \in Compressor_finish(w.compressor)}
    ELSE UNION {finish_from(flush(w, Fields[i], task), i + 1)
                : task \in Handed(w, Fetches(w, Fields[i]))}

finish(w) == finish_from(w, 1)

WInit ==
    /\ \E codec \in Codecs, threads \in 1..MaxThreads :
          writer = Writer_new(codec, threads)
    /\ pc = "open"
    /\ pushed = 0
    /\ reclog = <<>>
    /\ idxlog = <<>>
    /\ total = 0
    /\ DIdle
    /\ RIdle

\* No writer runs next to the depth query.
WIdle ==
    /\ writer = Writer_new("Store", 1)
    /\ pc = "off"
    /\ pushed = 0
    /\ reclog = <<>>
    /\ idxlog = <<>>
    /\ total = 0

\* push_record returns (at most max records are pushed).
PushReturns(max) ==
    /\ pc = "open"
    /\ pushed < max
    /\ \E n \in TagLens :
         \E out \in push_record(writer, reclog, idxlog, [tags |-> n]) :
            /\ ~out.panicked
            /\ writer' = out.writer
            /\ reclog' = out.reclog
            /\ idxlog' = out.idxlog
    /\ pushed' = pushed + 1
    /\ UNCHANGED <<pc, total, dvars, rvars>>

\* push_record panics: a copy into a chunk is out of range.
PushPanics(max) ==
    /\ pc = "open"
    /\ pushed < max
    /\ \E n \in TagLens :
         \E out \in push_record(writer, reclog, idxlog, [tags |-> n]) :
            /\ out.panicked
            /\ writer' = out.writer
            /\ reclog' = out.reclog
            /\ idxlog' = out.idxlog
    /\ pc' = "panic"
    /\ UNCHANGED <<pushed, total, dvars, rvars>>

\* finish returns.
Finish ==
    /\ pc = "open"
    /\ \E out \in finish(writer) :
          /\ writer' = [out.writer EXCEPT !.compressor.pending = {}]
          /\ total' = out.total
    /\ pc' = "done"
    /\ UNCHANGED <<pushed, reclog, idxlog, dvars, rvars>>

PushRecord == PushReturns(MaxRecords)

PushPanic == PushPanics(MaxRecords)

WNext ==
    \/ PushRecord
    \/ PushPanic
    \/ Finish

Init == WInit

Next == WNext

Spec == Init /\ [][Next]_vars

\* The writer with MaxThreads workers and the "Store" codec, followed over
\* two more records.
LongInit ==
    /\ WInit
    /\ writer = Writer_new("Store", MaxThreads)

LongPush == PushReturns(MaxRecords + 2)

LongPanic == PushPanics(MaxRecords + 2)

LongNext ==
    \/ LongPush
    \/ LongPanic
    \/ Finish

SpecLong == LongInit /\ [][LongNext]_vars

\* ------------------------------------------------------------------------
\* The depth query (gbam_tools/src/query/depth.rs)
\* ------------------------------------------------------------------------

\* The length of the i-th reference of the header (the lengths alternate).
RefLenOf(i) == IF i % 2 = 1 THEN MaxRefLen ELSE MaxRefLen - 1

\* file_meta.get_ref_seqs(): n references, named by their position.
get_ref_seqs(n) == [i \in 1..n |-> [chr |-> i - 1, len |-> RefLenOf(i)]]

\* The records a file with n references can hold: a read lies on its
\* reference, its end pos + base_coverage(cigar) is at most the length.
Reads(n) ==
    {r \in [refid : 0..(n - 1), pos : 0..(MaxRefLen - 1), cov : 1..MaxRefLen] :
        r.pos + r.cov <= RefLenOf(r.refid + 1)}

\* Files are sorted by reference and position.
SortedFile(s) ==
    \A i \in 1..(Len(s) - 1) :
        \/ s[i].refid < s[i + 1].refid
        \/ s[i].refid = s[i + 1].refid /\ s[i].pos <= s[i + 1].pos

Files(n) ==
    UNION {{s \in [1..k -> Reads(n)] : SortedFile(s)} : k \in 0..MaxReads}

\* The RefID block metadata of a file whose RefID blocks hold B items: the
\* k-th block holds records (k-1)*B .. k*B-1 and, when the file carries
\* statistics, the smallest and largest ref id among them.
view_blocks(file) ==
    LET N == Len(file.records)
        B == file.numitems
        nblocks == (N + B - 1) \div B
        ids(k) == {file.records[j].refid : j \in ((k - 1) * B + 1)..Min(k * B, N)}
    IN [k \in 1..nblocks |->
          [numitems |-> B,
           has_stats |-> file.stats,
           min_value |-> CHOOSE m \in ids(k) : \A x \in ids(k) : m <= x,
           max_value |-> CHOOSE m \in ids(k) : \A x \in ids(k) : m >= x]]

\* The outcome of a search: Some(val), None, or a panic.
Found(kind, val) == [kind |-> kind, val |-> val]

\* The loop of find_leftmost_block.  block_metas[mid] panics when mid is
\* out of range, stats.unwrap() when the block has no statistics.
RECURSIVE leftmost_loop(_, _, _, _)
leftmost_loop(id, block_metas, left, right) ==
    IF right - left > 1
    THEN LET mid == (left + right) \div 2
         IN IF mid >= Len(block_metas) \/ ~block_metas[mid + 1].has_stats
            THEN Found("Panic", 0)
            ELSE IF block_metas[mid + 1].max_value >= id
                 THEN leftmost_loop(id, block_metas, left, mid)
                 ELSE leftmost_loop(id, block_metas, mid, right)
    ELSE Found("Some", right)

find_leftmost_block(id, block_metas) ==
    LET r == leftmost_loop(id, block_metas, -1, Len(block_metas) + 1)
    IN IF r.kind = "Panic" THEN r
       ELSE IF r.val >= Len(block_metas) \/ ~block_metas[r.val + 1].has_stats
            THEN Found("Panic", 0)
            ELSE IF block_metas[r.val + 1].min_value > id
                 THEN Found("None", 0)
                 ELSE r

RECURSIVE rightmost_loop(_, _, _, _)
rightmost_loop(id, block_metas, left, right) ==
    IF right - left > 1
    THEN LET mid == (left + right) \div 2
         IN IF ~block_metas[mid + 1].has_stats
            THEN Found("Panic", 0)
            ELSE IF block_metas[mid + 1].min_value <= id
                 THEN rightmost_loop(id, block_metas, mid, right)
                 ELSE rightmost_loop(id, block_metas, left, mid)
    ELSE Found("Some", right)

find_rightmost_block(id, block_metas) ==
    rightmost_loop(id, block_metas, -1, Len(block_metas))

\* The outcome of a scan: the array, or a panic.
Scanned(panicked, arr) == [panicked |-> panicked, arr |-> arr]

\* Vec::resize(n, 0): truncates a longer vector, pads a shorter one with
\* zeros, and keeps what the kept slots held.
resize(v, n) == [i \in 1..n |-> IF i <= Len(v) THEN v[i] ELSE 0]

\* process_range over the record indices at..=last (0-based): an index of
\* scan_line at or past its length panics.
RECURSIVE process_range(_, _, _, _, _)
process_range(records, at, last, scan_line, target_id) ==
    IF at > last THEN Scanned(FALSE, scan_line)
    ELSE LET rec == records[at + 1]
             read_start == rec.pos
             read_end == read_start + rec.cov
         IN IF rec.refid # target_id
            THEN process_range(records, at + 1, last, scan_line, target_id)
            ELSE IF read_start >= Len(scan_line) \/ read_end >= Len(scan_line)
                 THEN Scanned(TRUE, scan_line)
                 ELSE LET inc == [scan_line EXCEPT ![read_start + 1] = @ + 1]
                          dec == [inc EXCEPT ![read_end + 1] = @ - 1]
                      IN process_range(records, at + 1, last, dec, target_id)

\* The running sum calc_depth leaves in the array.
prefix_sums(v) == [i \in 1..Len(v) |-> SumSeq(SubSeq(v, 1, i))]

\* The record indices calc_depth scans, first..=last (0-based).
first_rec(file, lower_bound) == lower_bound * view_blocks(file)[1].numitems

last_rec(file, upper_bound) ==
    Min(upper_bound * view_blocks(file)[1].numitems, Len(file.records) - 1)

calc_depth(file, ref_id, coverage_arr, ref_len) ==
    LET lower_bound == find_leftmost_block(ref_id, view_blocks(file))
        upper_bound == find_rightmost_block(ref_id, view_blocks(file))
    IN IF lower_bound.kind # "Some" \/ upper_bound.kind # "Some"
       THEN Scanned(TRUE, coverage_arr)
       ELSE LET coverage == process_range(file.records,
                                          first_rec(file, lower_bound.val),
                                          last_rec(file, upper_bound.val),
                                          resize(coverage_arr, ref_len), ref_id)
            IN IF coverage.panicked THEN coverage
               ELSE Scanned(FALSE, prefix_sums(coverage.arr))

\* The decimal digits write_efficient puts out for n, most significant
\* first: its loops run while the number is positive, so 0 has no digit.
RECURSIVE Digits(_)
Digits(n) == IF n > 0 THEN Append(Digits(n \div 10), n % 10) ELSE <<>>

\* ConsolePrinter::write_efficient after set_chr(chr): the line written.
write_efficient(chr, coord, depth) ==
    [chr |-> chr, coord |-> Digits(coord), depth |-> Digits(depth),
     at |-> coord, cov |-> depth]

\* The rows main_depth prints for the region lo..=hi from coord on; reading
\* coverage_arr at or past its length panics.
RECURSIVE print_region(_, _, _, _, _)
print_region(chr, coverage_arr, coord, hi, rows) ==
    IF coord > hi THEN [panicked |-> FALSE, rows |-> rows]
    ELSE IF coord >= Len(coverage_arr) THEN [panicked |-> TRUE, rows |-> rows]
    ELSE print_region(chr, coverage_arr, coord + 1, hi,
                      IF coverage_arr[coord + 1] > 0
                      THEN Append(rows, write_efficient(chr, coord, coverage_arr[coord + 1]))
                      ELSE rows)

RECURSIVE print_regions(_, _, _, _)
print_regions(chr, coverage_arr, bed_regions, rows) ==
    IF Len(bed_regions) = 0 THEN [panicked |-> FALSE, rows |-> rows]
    ELSE LET one == print_region(chr, coverage_arr, bed_regions[1][1],
                                 bed_regions[1][2], rows)
         IN IF one.panicked THEN one
            ELSE print_regions(chr, coverage_arr, Tail(bed_regions), one.rows)

\* The query lists a reference can be given: none, all of it, a region that
\* runs past its end, two regions out of order.
QueryLists(len) ==
    {<<>>, <<<<0, len - 1>>>>, <<<<1, len>>>>, <<<<1, 1>>, <<0, 0>>>>}

\* The parsed queries, per reference in header order (<<>>: the reference
\* is not queried).
QuerySets(n) ==
    {q \in [1..n -> QueryLists(MaxRefLen) \cup QueryLists(MaxRefLen - 1)] :
        \A i \in 1..n : q[i] \in QueryLists(RefLenOf(i))}

\* The thread_num option: None, or Some(val).
ThreadNums ==
    {[some |-> FALSE, val |-> 0]} \cup {[some |-> TRUE, val |-> t] : t \in 1..MaxThreads}

\* An empty ring slot and a slot holding the handle of a worker.
NoHandle ==
    [some |-> FALSE, chr |-> 0, ref_id |-> 0, ref_len |-> 0, buf |-> <<>>,
     done |-> FALSE, panicked |-> FALSE, ret |-> <<>>]

\* spawn with calc_depth always run on the first reference.
spawn_first_ref(chr, ref_id, buf, ref_len) ==
    [some |-> TRUE, chr |-> chr, ref_id |-> 0, ref_len |-> ref_len,
     buf |-> buf, done |-> FALSE, panicked |-> FALSE, ret |-> <<>>]

\* spawn with the worker labelled by the first reference's name.
spawn_first_chr(chr, ref_id, buf, ref_len) ==
    [some |-> TRUE, chr |-> 0, ref_id |-> ref_id, ref_len |-> ref_len,
     buf |-> buf, done |-> FALSE, panicked |-> FALSE, ret |-> <<>>]

spawn(chr, ref_id, buf, ref_len) ==
    [some |-> TRUE, chr |-> chr, ref_id |-> ref_id, ref_len |-> ref_len,
     buf |-> buf, done |-> FALSE, panicked |-> FALSE, ret |-> <<>>]

\* main_depth up to its loop (lines 85-123): an empty query set means every
\* reference in full; one buffer and one ring slot per thread, at most
\* RingCap; max().unwrap() panics when the header lists no reference.
whole_file(ref_seqs) == [i \in 1..Len(ref_seqs) |-> <<<<0, ref_seqs[i].len - 1>>>>]

\* The number of buffers without the cap on the thread count.
ring_size_uncapped(tn) == IF tn.some THEN tn.val ELSE 1

ring_size(tn) == IF tn.some THEN Min(tn.val, RingCap) ELSE 1

\* One iteration of the loop of main_depth (lines 126-179) from state s,
\* the worker in the slot it joins having returned.  With no ring slot at all
\* (thread_num = Some(0)) circular_buf_channels[idx] is out of range.
loop_body(s) ==
    LET ring == s.circular_buf_channels
        i == IF s.idx = Len(ring) THEN 0 ELSE s.idx
        index_panics == i >= Len(ring)
        slot == IF index_panics THEN NoHandle ELSE ring[i + 1]
        ref_seqs == get_ref_seqs(s.gbam_file.n)
        joined == slot.some
        join_panics == joined /\ slot.panicked
        queried == joined /\ s.queries[slot.chr + 1] # <<>>
        pr == IF queried /\ ~join_panics
              THEN print_regions(slot.chr, slot.ret, s.queries[slot.chr + 1], s.printer)
              ELSE [panicked |-> FALSE, rows |-> s.printer]
        coverage_arr == IF queried THEN <<>> ELSE slot.ret
        pushed_back == IF joined THEN Append(s.buffers, coverage_arr) ELSE s.buffers
        taken == IF joined THEN [ring EXCEPT ![i + 1] = NoHandle] ELSE ring
        has_next == s.iter < Len(ref_seqs)
        pop_panics == has_next /\ Len(pushed_back) = 0
        next_chr == ref_seqs[s.iter + 1]
        popped == IF has_next
                  THEN SubSeq(pushed_back, 1, Len(pushed_back) - 1)
                  ELSE pushed_back
        spawned == IF has_next
                   THEN [taken EXCEPT ![i + 1] =
                           spawn(next_chr.chr, s.iter, pushed_back[Len(pushed_back)],
                                 next_chr.len)]
                   ELSE taken
    IN IF index_panics
       THEN [s EXCEPT !.idx = i, !.dpc = "panic"]
       ELSE IF join_panics \/ pr.panicked \/ pop_panics
       THEN [s EXCEPT !.circular_buf_channels = taken, !.idx = i,
                      !.printer = pr.rows, !.dpc = "panic"]
       ELSE [s EXCEPT !.buffers = popped,
                      !.circular_buf_channels = spawned,
                      !.iter = IF has_next THEN @ + 1 ELSE @,
                      !.printer = pr.rows,
                      !.idx = IF Len(popped) = Len(ring) THEN i ELSE i + 1,
                      !.dpc = IF Len(popped) = Len(ring) THEN "exit" ELSE "loop"]

DState ==
    [gbam_file |-> gbam_file, queries |-> queries, thread_num |-> thread_num,
     buffers |-> buffers, circular_buf_channels |-> circular_buf_channels,
     idx |-> idx, iter |-> iter, printer |-> printer, dpc |-> dpc]

DInit ==
    /\ \E n \in 0..MaxRefs :
         /\ \E records \in Files(n), numitems \in 1..MaxBlockItems, stats \in BOOLEAN :
               gbam_file = [n |-> n, records |-> records, numitems |-> numitems,
                            stats |-> stats]
         /\ queries \in QuerySets(n)
    /\ thread_num \in ThreadNums
    /\ buffers = <<>>
    /\ circular_buf_channels = <<>>
    /\ idx = 0
    /\ iter = 0
    /\ printer = <<>>
    /\ dpc = "start"
    /\ WIdle
    /\ RIdle

\* main_depth reaches its loop, or panics before it.
Begin ==
    /\ dpc = "start"
    /\ IF gbam_file.n = 0
       THEN /\ dpc' = "panic"
            /\ UNCHANGED <<queries, buffers, circular_buf_channels>>
       ELSE /\ dpc' = "loop"
            /\ queries' = IF \A i \in 1..gbam_file.n : queries[i] = <<>>
                          THEN whole_file(get_ref_seqs(gbam_file.n))
                          ELSE queries
            /\ buffers' = [k \in 1..ring_size(thread_num) |-> <<>>]
            /\ circular_buf_channels' = [k \in 1..ring_size(thread_num) |-> NoHandle]
    /\ UNCHANGED <<gbam_file, thread_num, idx, iter, printer, wvars, rvars>>

\* A spawned worker runs calc_depth to its end.
Worker ==
    /\ dpc = "loop"
    /\ \E k \in 1..Len(circular_buf_channels) :
         LET h == circular_buf_channels[k]
             r == calc_depth(gbam_file, h.ref_id, h.buf, h.ref_len)
         IN /\ h.some
            /\ ~h.done
            /\ circular_buf_channels' =
                  [circular_buf_channels EXCEPT
                     ![k] = [h EXCEPT !.done = TRUE, !.panicked = r.panicked,
                                     !.ret = r.arr]]
    /\ UNCHANGED <<gbam_file, queries, thread_num, buffers, idx, iter, printer,
                   dpc, wvars, rvars>>

\* The main thread runs one iteration of its loop; join() waits for the
\* worker of the slot.
LoopIteration ==
    /\ dpc = "loop"
    /\ LET ring == circular_buf_channels
           at == IF idx = Len(ring) THEN 0 ELSE idx
           slot == IF at >= Len(ring) THEN NoHandle ELSE ring[at + 1]
           s == loop_body(DState)
       IN /\ slot.some => slot.done
          /\ buffers' = s.buffers
          /\ circular_buf_channels' = s.circular_buf_channels
          /\ idx' = s.idx
          /\ iter' = s.iter
          /\ printer' = s.printer
          /\ dpc' = s.dpc
    /\ UNCHANGED <<gbam_file, queries, thread_num, wvars, rvars>>

DNext ==
    \/ Begin
    \/ Worker
    \/ LoopIteration

SpecDepth == DInit /\ [][DNext]_vars

\* The ring followed over one more reference and with larger rings: a file
\* with one record on each reference (from its first base to the base
\* before its last), thread counts 0, up to MaxThreads + 1, and one past RingCap.
OneReadEach(n) ==
    [i \in 1..n |-> [refid |-> i - 1, pos |-> 0, cov |-> RefLenOf(i) - 1]]

RingThreadNums ==
    ThreadNums \cup {[some |-> TRUE, val |-> 0],
                     [some |-> TRUE, val |-> MaxThreads + 1],
                     [some |-> TRUE, val |-> RingCap + 1]}

RingInit ==
    /\ \E n \in 0..(MaxRefs + 1) :
         /\ \E numitems \in 1..MaxBlockItems :
               gbam_file = [n |-> n, records |-> OneReadEach(n),
                            numitems |-> numitems, stats |-> TRUE]
         /\ queries \in QuerySets(n)
    /\ thread_num \in RingThreadNums
    /\ buffers = <<>>
    /\ circular_buf_channels = <<>>
    /\ idx = 0
    /\ iter = 0
    /\ printer = <<>>
    /\ dpc = "start"
    /\ WIdle
    /\ RIdle

SpecRing == RingInit /\ [][DNext]_vars

\* When each thread can take a step: main_depth before its loop, a spawned
\* worker that has not returned, and the main thread in its loop unless the
\* join of line 131 waits for a running worker.
BeginEnabled == dpc = "start"

WorkerEnabled ==
    /\ dpc = "loop"
    /\ \E k \in 1..Len(circular_buf_channels) :
          circular_buf_channels[k].some /\ ~circular_buf_channels[k].done

LoopIterationEnabled ==
    /\ dpc = "loop"
    /\ LET at == IF idx = Len(circular_buf_channels) THEN 0 ELSE idx
       IN (at < Len(circular_buf_channels) /\ circular_buf_channels[at + 1].some)
             => circular_buf_channels[at + 1].done

\* The scheduler runs every spawned worker and the main thread: weak
\* fairness of each action, with the enabling condition of the action
\* written out.
RingFairness ==
    /\ <>[]BeginEnabled => []<><<Begin>>_vars
    /\ <>[]WorkerEnabled => []<><<Worker>>_vars
    /\ <>[]LoopIterationEnabled => []<><<LoopIteration>>_vars

SpecRingFair == SpecRing /\ RingFairness

\* ------------------------------------------------------------------------
\* Notions the claims are stated with
\* ------------------------------------------------------------------------
Submitted(f) == writer.compressor.submitted[f]

Blocks(f) == writer.file_meta.blocks[f]

BlockSizes(f) == writer.file_meta.block_sizes[f]

\* The offsets at which the sink's log has the payload of block k (0-based)
\* of field f.
PayloadAt(f, k) ==
    {writer.inner.log[i].at : i \in {j \in 1..Len(writer.inner.log) :
        /\ writer.inner.log[j].what = "block"
        /\ writer.inner.log[j].field = f
        /\ writer.inner.log[j].key = k}}

\* The footer entry k (1-based) of field f describes the k-th block
\* submitted for f.
FooterEntryRight(f, k) ==
    /\ Blocks(f)[k].numitems = Submitted(f)[k].num_items
    /\ BlockSizes(f)[k] = Submitted(f)[k].buf
    /\ PayloadAt(f, k - 1) = {Blocks(f)[k].seekpos}

\* C1: after finish the footer is in submission order: per field one entry
\* per submitted block, entry k holding the item count, the compressed size
\* and the payload offset of the k-th block submitted.
C1_FooterInSubmissionOrder ==
    pc = "done" =>
      \A f \in FieldSet :
        /\ Len(Blocks(f)) = Len(Submitted(f))
        /\ Len(BlockSizes(f)) = Len(Submitted(f))
        /\ \A k \in 1..Len(Submitted(f)) : FooterEntryRight(f, k)

\* The length of the first item of block k (0-based) of field f, or -1 when
\* no item was appended to such a block.
FirstLenOf(f, k) ==
    IF field_type(f) = "FixedSized"
    THEN (IF k < writer.blocks_nums[f] \/ writer.num_items[f] > 0
          THEN U32_SIZE ELSE -1)
    ELSE LET in == {i \in 1..Len(reclog) : reclog[i].block = k}
         IN IF in = {} THEN -1
            ELSE reclog[CHOOSE i \in in : \A j \in in : i <= j].len

\* C2 (size): a submitted block is larger than SIZE_LIMIT only if it holds
\* exactly one item.
C2_OversizedBlockIsSingle ==
    \A f \in FieldSet : \A k \in 1..Len(Submitted(f)) :
      Submitted(f)[k].uncompr_size > SIZE_LIMIT => Submitted(f)[k].num_items = 1

\* C2 (not early): a block that has a successor was closed because the
\* successor's first item did not fit.
C2_NotClosedEarly ==
    \A f \in FieldSet : \A k \in 1..Len(Submitted(f)) :
      FirstLenOf(f, k) >= 0 =>
        Submitted(f)[k].uncompr_size + FirstLenOf(f, k) > SIZE_LIMIT

\* C2: the block closure rule of update_field_buf and its consequences.
C2_ClosureRule == C2_OversizedBlockIsSingle /\ C2_NotClosedEarly

\* C3: a record with an oversized variable field is admitted by push_record
\* in every writer state (no push_record fails) and ends up alone in its
\* block.
C3_OversizedAdmitted ==
    /\ pc # "panic"
    /\ \A i \in 1..Len(reclog) :
         reclog[i].len > SIZE_LIMIT =>
           \A j \in 1..Len(reclog) : reclog[j].block = reclog[i].block => j = i

\* The item counts of the blocks submitted for field f, in order.
NumItemsSeq(f) == [k \in 1..Len(Submitted(f)) |-> Submitted(f)[k].num_items]

DataFieldSet == Range(DataFields)

FixedDataFields == {f \in DataFieldSet : field_type(f) = "FixedSized"}

VarFields == {f \in DataFieldSet : field_type(f) = "VariableSized"}

ItemsOf(f) == SumSeq(NumItemsSeq(f)) + writer.num_items[f]

SameBlockLens(i) ==
    [j \in 1..i |-> IF reclog[j].block = reclog[i].block THEN reclog[j].len ELSE 0]

\* C6: every pushed record appends exactly one entry to the index field,
\* the cumulative byte offset of the end of its payload within the data
\* block holding the payload.
C6_IndexIsEndOffset ==
    pc # "panic" =>
      /\ Len(reclog) = pushed
      /\ Len(idxlog) = pushed
      /\ \A i \in 1..Len(idxlog) : idxlog[i] = SumSeq(SameBlockLens(i))

\* Witness of C6: two payloads share a data block and a later payload opens
\* the next one, where the offset restarts.
C6_Witness ==
    /\ pc = "open"
    /\ Len(idxlog) = 3
    /\ reclog[1].block = reclog[2].block
    /\ reclog[3].block # reclog[2].block
    /\ idxlog[2] > idxlog[1]
    /\ idxlog[3] = reclog[3].len
    /\ idxlog[3] > 0

\* The lengths of the payload writes among the first n entries of the
\* sink's log.
PayloadLens(n) ==
    [i \in 1..n |-> IF writer.inner.log[i].what = "block"
                     THEN writer.inner.log[i].len ELSE 0]

\* C7: nothing is written into the preamble before the footer; after
\* finish the FileInfo at offset 0 has version [1,0], the offset of the
\* footer (right after the last payload) and the checksum of the footer
\* bytes written, and finish returns the footer's end.
C7_PreambleLast ==
    LET log == writer.inner.log
        n == Len(log)
    IN /\ pc # "done" =>
            \A i \in 1..n : log[i].what = "block" /\ log[i].at >= FILE_INFO_SIZE
       /\ pc = "done" =>
            /\ n >= 2
            /\ \A i \in 1..(n - 2) : log[i].what = "block"
            /\ \A i \in 1..(n - 1) : log[i].at >= FILE_INFO_SIZE
            /\ log[n - 1].what = "meta"
            /\ log[n - 1].at = FILE_INFO_SIZE + SumSeq(PayloadLens(n - 2))
            /\ log[n - 1].len = Len(log[n - 1].data)
            /\ log[n - 1].data = MetaBytes(writer.file_meta)
            /\ log[n].what = "info"
            /\ log[n].at = 0
            /\ log[n].len = FILE_INFO_SIZE
            /\ log[n].data.version = <<1, 0>>
            /\ log[n].data.seekpos = log[n - 1].at
            /\ log[n].data.crc32 = calc_crc_for_meta_bytes(log[n - 1].data)
            /\ total = log[n - 1].at + log[n - 1].len

\* Witness of C7: finish returned for a file holding payloads.
C7_Witness ==
    /\ pc = "done"
    /\ pushed >= 2
    /\ Len(writer.inner.log) >= 4
    /\ total > FILE_INFO_SIZE

\* C8: finish with no record pushed writes no payload and records no block
\* for any field, whatever the thread count: the footer starts at
\* FILE_INFO_SIZE and the file ends with it.
C8_EmptyFile ==
    (pc = "done" /\ pushed = 0) =>
      LET log == writer.inner.log
      IN /\ \A f \in FieldSet : Blocks(f) = <<>> /\ BlockSizes(f) = <<>>
         /\ \A i \in 1..Len(log) : log[i].what # "block"
         /\ Len(log) = 2
         /\ log[1].what = "meta" /\ log[1].at = FILE_INFO_SIZE
         /\ log[2].data.seekpos = FILE_INFO_SIZE
         /\ total = FILE_INFO_SIZE + log[1].len

\* Witness of C8: finish returned on a writer with more than one worker to
\* which nothing was pushed.
C8_Witness ==
    /\ pc = "done"
    /\ pushed = 0
    /\ writer.compressor.primed > 1

\* The records of the file on reference ref_id that cover position p.
Covering(ref_id, p) ==
    {j \in 1..Len(gbam_file.records) :
        LET rec == gbam_file.records[j]
        IN rec.refid = ref_id /\ rec.pos <= p /\ p < rec.pos + rec.cov}

\* The records of the file on reference ref_id that end at its last base.
EndingAtRefLen(ref_id, ref_len) ==
    {j \in 1..Len(gbam_file.records) :
        LET rec == gbam_file.records[j]
        IN rec.refid = ref_id /\ rec.pos + rec.cov = ref_len}

\* The handles of the workers that have returned from calc_depth on a file
\* with block statistics.
Returned ==
    {h \in Range(circular_buf_channels) : h.some /\ h.done /\ gbam_file.stats}

\* C9: for a reference that has records, calc_depth returns an array with
\* cov[p] = |{i : s_i <= p < e_i}| for every 0 <= p < ref_len.
C9_CoverageIdentity ==
    \A h \in Returned :
        (\E j \in 1..Len(gbam_file.records) : gbam_file.records[j].refid = h.ref_id) =>
          /\ ~h.panicked
          /\ Len(h.ret) = h.ref_len
          /\ \A p \in 0..(h.ref_len - 1) :
                h.ret[p + 1] = Cardinality(Covering(h.ref_id, p))

\* C10: calc_depth returns for a reference with a record whose end equals
\* ref_len, and the record is counted at every position pos..ref_len-1.
C10_EndAtRefLenAccepted ==
    \A h \in Returned :
        \A j \in EndingAtRefLen(h.ref_id, h.ref_len) :
          /\ ~h.panicked
          /\ \A p \in gbam_file.records[j].pos..(h.ref_len - 1) : h.ret[p + 1] >= 1

\* The ring slot the next iteration of the loop joins and refills.
CurrentSlot ==
    IF Len(circular_buf_channels) = 0 THEN NoHandle
    ELSE circular_buf_channels[(IF idx = Len(circular_buf_channels) THEN 0 ELSE idx) + 1]

\* A row as the claims speak of it: (chr, coord, depth).
Triple(row) == <<row.chr, row.at, row.cov>>

Triples(rows) == [k \in 1..Len(rows) |-> Triple(rows[k])]

\* The rows owed for one region [lo, hi] of chr: one per coord of the region
\* with cov[coord] > 0, in ascending order.
RowsOfRegion(chr, cov, region) ==
    LET coords == [k \in 1..(region[2] - region[1] + 1) |-> region[1] + k - 1]
        covered(c) == c < Len(cov) /\ cov[c + 1] > 0
        kept == SelectSeq(coords, covered)
    IN [k \in 1..Len(kept) |-> <<chr, kept[k], cov[kept[k] + 1]>>]

\* The rows owed for the regions of chr, region by region in query order.
RECURSIVE RowsOwed(_, _, _)
RowsOwed(chr, cov, regions) ==
    IF Len(regions) = 0 THEN <<>>
    ELSE RowsOfRegion(chr, cov, regions[1]) \o RowsOwed(chr, cov, Tail(regions))

\* The loop joins a worker that returned an array.
JoinsReturned ==
    /\ LoopIteration
    /\ CurrentSlot.some
    /\ ~CurrentSlot.panicked

\* C11: when main_depth joins the worker of a reference, it emits one row
\* (chr, coord, cov[coord]) for exactly the coords of the reference's query
\* intervals [lo, hi] with cov[coord] > 0, by interval in query order and by
\* ascending coordinate, and nothing else.
C11_IntervalEmission ==
    [][JoinsReturned =>
         /\ dpc' # "panic"
         /\ Triples(printer') =
               Triples(printer) \o RowsOwed(CurrentSlot.chr, CurrentSlot.ret,
                                            queries[CurrentSlot.chr + 1])]_vars

\* The blocks (0-based) of the file's RefID metadata whose max_value is at
\* least id.
ReachingBlocks(id) ==
    {k \in 0..(Len(view_blocks(gbam_file)) - 1) :
        view_blocks(gbam_file)[k + 1].max_value >= id}

\* The leftmost of them.
LeftmostReaching(id) ==
    CHOOSE k \in ReachingBlocks(id) : \A j \in ReachingBlocks(id) : k <= j

\* C12: on a non-empty list of RefID block metadata, the search a worker
\* made with find_leftmost_block for its ref_id returned the leftmost block
\* whose max_value >= ref_id when that block's min_value <= ref_id, and None
\* (no panic) otherwise, also when every max_value is smaller than ref_id.
C12_RegionSelection ==
    \A h \in Returned :
        Len(view_blocks(gbam_file)) > 0 =>
          LET found == find_leftmost_block(h.ref_id, view_blocks(gbam_file))
          IN IF /\ ReachingBlocks(h.ref_id) # {}
                /\ view_blocks(gbam_file)[LeftmostReaching(h.ref_id) + 1].min_value
                      <= h.ref_id
             THEN found = Found("Some", LeftmostReaching(h.ref_id))
             ELSE found = Found("None", 0)

\* The rightmost block (0-based) of the file's RefID metadata whose
\* min_value is at most id.
RightmostStarting(id) ==
    LET starting == {k \in 0..(Len(view_blocks(gbam_file)) - 1) :
                        view_blocks(gbam_file)[k + 1].min_value <= id}
    IN CHOOSE k \in starting : \A j \in starting : k >= j

\* The record indices process_range is given by calc_depth for ref_id.
ScannedIndices(ref_id) ==
    first_rec(gbam_file, find_leftmost_block(ref_id, view_blocks(gbam_file)).val)
      .. last_rec(gbam_file, find_rightmost_block(ref_id, view_blocks(gbam_file)).val)

\* C13: with L the leftmost block whose max_value >= ref_id, R the rightmost
\* block whose min_value <= ref_id and B the RefID block item count, the
\* record indices a worker's calc_depth scanned are exactly those of
\* [L*B, min((R+1)*B, total_records)).
C13_ScanBound ==
    \A h \in Returned :
        find_leftmost_block(h.ref_id, view_blocks(gbam_file)).kind = "Some" =>
          ScannedIndices(h.ref_id) =
            (LeftmostReaching(h.ref_id) * gbam_file.numitems)
              .. (Min((RightmostStarting(h.ref_id) + 1) * gbam_file.numitems,
                      Len(gbam_file.records)) - 1)

\* The ring slots that hold a worker.
Occupied == {k \in 1..Len(circular_buf_channels) : circular_buf_channels[k].some}

\* The number of references joined so far.
Joined == iter - Cardinality(Occupied)

\* s is a prefix of t.
IsPrefix(s, t) == Len(s) <= Len(t) /\ s = SubSeq(t, 1, Len(s))

\* The rows an iteration of the loop adds to the output.
NewRows == SubSeq(printer', Len(printer) + 1, Len(printer'))

\* In the loop, the slot the main thread joins next holds the reference
\* spawned first among those not yet joined, and the rows written so far
\* are those of joined references, reference by reference in ref_seqs order.
JoinsInRefSeqsOrder ==
    dpc = "loop" =>
      /\ CurrentSlot.some => CurrentSlot.chr = Joined
      /\ \A k \in 1..Len(printer) : printer[k].chr <= Joined
      /\ \A k \in 1..(Len(printer) - 1) : printer[k].chr <= printer[k + 1].chr

\* An iteration prints rows of the reference it joins only: the rows owed
\* for its intervals, in query order and ascending within an interval (all
\* of them, or the rows up to a panic).
PrintsJoinedReference ==
    LoopIteration =>
      /\ IsPrefix(printer, printer')
      /\ IF CurrentSlot.some /\ ~CurrentSlot.panicked
         THEN IsPrefix(Triples(NewRows),
                       RowsOwed(CurrentSlot.chr, CurrentSlot.ret,
                                queries[CurrentSlot.chr + 1]))
         ELSE NewRows = <<>>

\* C14 as amended: for every ring size and every order in which workers
\* finish, main_depth joins and prints references in ref_seqs order (the
\* reference spawned i-th is the i-th joined and printed); within a reference
\* rows follow the query intervals in query order, coordinates ascending
\* within an interval.
C14_OrderUnderScheduling ==
    []JoinsInRefSeqsOrder /\ [][PrintsJoinedReference]_vars

\* C14 as claimed: references are printed in ref_seqs order and the
\* coordinates of a reference's rows ascend.
C14_CoordsAscendWithinReference ==
    /\ JoinsInRefSeqsOrder
    /\ \A k \in 1..(Len(printer) - 1) :
          printer[k].chr = printer[k + 1].chr => printer[k].at < printer[k + 1].at

\* Witness of C14: the first reference is joined and printed while, of the
\* two workers in the ring, the one spawned later has finished first.
C14_Witness ==
    /\ dpc = "loop"
    /\ Len(printer) > 0
    /\ CurrentSlot.some
    /\ ~CurrentSlot.done
    /\ \E k \in Occupied :
          /\ circular_buf_channels[k].chr > CurrentSlot.chr
          /\ circular_buf_channels[k].done

\* main_depth run to its end from state s of its loop, every worker joined
\* having run calc_depth (workers are deterministic, so the output of a run
\* does not depend on when they run).
\* The state once the worker in the slot the loop is about to join has
\* returned (the join of line 130 blocks until then).
CurrentSlotOf(s) ==
    (IF s.idx = Len(s.circular_buf_channels) THEN 0 ELSE s.idx) + 1

WorkerResult(s) ==
    calc_depth(s.gbam_file, s.circular_buf_channels[CurrentSlotOf(s)].ref_id,
               s.circular_buf_channels[CurrentSlotOf(s)].buf,
               s.circular_buf_channels[CurrentSlotOf(s)].ref_len)

returned(h, r) ==
    [some |-> TRUE, chr |-> h.chr, ref_id |-> h.ref_id, ref_len |-> h.ref_len,
     buf |-> h.buf, done |-> TRUE, panicked |-> r.panicked, ret |-> r.arr]

await_worker(s) ==
    [gbam_file |-> s.gbam_file, queries |-> s.queries,
     thread_num |-> s.thread_num, buffers |-> s.buffers,
     circular_buf_channels |->
        [k \in 1..Len(s.circular_buf_channels) |->
           IF /\ k = CurrentSlotOf(s)
              /\ s.circular_buf_channels[k].some
              /\ ~s.circular_buf_channels[k].done
           THEN returned(s.circular_buf_channels[k], WorkerResult(s))
           ELSE s.circular_buf_channels[k]],
     idx |-> s.idx, iter |-> s.iter, printer |-> s.printer, dpc |-> s.dpc]

RECURSIVE run_to_end(_)
run_to_end(s) ==
    IF s.dpc # "loop" THEN s ELSE run_to_end(loop_body(await_worker(s)))

\* The rows main_depth writes for the file and queries of this run when it
\* is given tn as its thread count.
RowsWith(tn) ==
    run_to_end([DState EXCEPT
                  !.thread_num = tn,
                  !.buffers = [k \in 1..ring_size(tn) |-> <<>>],
                  !.circular_buf_channels = [k \in 1..ring_size(tn) |-> NoHandle],
                  !.idx = 0, !.iter = 0, !.printer = <<>>, !.dpc = "loop"]).printer

\* main_depth has ended, past its loop or in a panic.
Ended == dpc \in {"exit", "panic"} /\ gbam_file.n > 0

\* C15: the rows main_depth has written when it ends are those it writes
\* for the same file and queries with any other thread count.
C15_OutputStability ==
    Ended => \A tn \in ThreadNums : RowsWith(tn) = printer

\* The file holds no record on the reference ref_id.
NoReads(ref_id) ==
    \A j \in 1..Len(gbam_file.records) : gbam_file.records[j].refid # ref_id

\* A worker has returned or panicked for a reference without reads, in a
\* file that has records and block statistics.
WorkedWithoutReads(h) ==
    /\ h.some
    /\ h.done
    /\ NoReads(h.ref_id)
    /\ gbam_file.stats
    /\ Len(gbam_file.records) > 0

\* C16: the worker of a reference without reads returns, with a coverage
\* array that yields no row, so that main_depth goes on to the references
\* that have reads.
C16_ReferenceWithoutReads ==
    \A k \in 1..Len(circular_buf_channels) :
        WorkedWithoutReads(circular_buf_channels[k]) =>
            /\ ~circular_buf_channels[k].panicked
            /\ \A c \in 1..Len(circular_buf_channels[k].ret) :
                    circular_buf_channels[k].ret[c] = 0

\* The file holds no record (and so no RefID block).
EmptyDepthFile == Len(gbam_file.records) = 0

\* C17: on a file without records main_depth never panics and prints no
\* row, whatever the queries.
C17_DepthOnEmptyFile ==
    EmptyDepthFile => dpc # "panic" /\ printer = <<>>

\* The file of this run with min/max statistics on its RefID blocks.
WithStats ==
    [n |-> gbam_file.n, records |-> gbam_file.records,
     numitems |-> gbam_file.numitems, stats |-> TRUE]

\* A worker has returned or panicked on a file that has records and no
\* block statistics.
WorkedWithoutStats(h) ==
    /\ h.some
    /\ h.done
    /\ ~gbam_file.stats
    /\ Len(gbam_file.records) > 0

\* C18: on a file whose RefID blocks carry no statistics a worker returns,
\* with the coverage the stats-guided scan of the same records yields.
C18_StatsAbsentFallback ==
    \A k \in 1..Len(circular_buf_channels) :
        WorkedWithoutStats(circular_buf_channels[k]) =>
            /\ ~circular_buf_channels[k].panicked
            /\ circular_buf_channels[k].ret =
                  calc_depth(WithStats, circular_buf_channels[k].ref_id,
                             circular_buf_channels[k].buf,
                             circular_buf_channels[k].ref_len).arr

\* K of the claim: min(thread_count, 8), or 1 without a thread count.
K == IF thread_num.some
     THEN (IF thread_num.val < RingCap THEN thread_num.val ELSE RingCap)
     ELSE 1

\* The iteration about to run reaches buffers.pop() with an empty pool: the
\* slot it works on holds no worker to take a buffer back from, and a
\* reference is left to spawn.
PopFails ==
    /\ dpc = "loop"
    /\ Len(circular_buf_channels) > 0
    /\ ~CurrentSlot.some
    /\ iter < gbam_file.n
    /\ Len(buffers) = 0

\* C19: between the iterations of the loop, and past it, the free buffers
\* and the occupied slots of the ring (one per slot, K slots) add up to K,
\* and no iteration pops from an empty pool.
C19_RingBound ==
    /\ dpc \in {"loop", "exit"} =>
          /\ Len(circular_buf_channels) = K
          /\ Len(buffers) + Cardinality(Occupied) = K
    /\ ~PopFails

\* The ring is full with a reference left to spawn.
C19_Witness ==
    /\ dpc = "loop"
    /\ K >= 2
    /\ Cardinality(Occupied) = K
    /\ Len(buffers) = 0
    /\ iter < gbam_file.n

\* The references whose worker is in the ring.
LiveRefs == {circular_buf_channels[k].ref_id : k \in Occupied}

\* The references spawned so far are 0..iter-1, each in one slot or joined:
\* the ring holds the latest of them, one slot each.
OncePerReference ==
    dpc \in {"loop", "exit"} =>
        /\ iter <= gbam_file.n
        /\ Cardinality(LiveRefs) = Cardinality(Occupied)
        /\ LiveRefs = Joined..(iter - 1)

\* The loop is left with every reference spawned and every worker joined.
ExitsWhenAllDone ==
    dpc = "exit" => iter = gbam_file.n /\ Occupied = {} /\ Joined = gbam_file.n

\* An iteration that does not panic joins the worker of its slot, if there
\* is one, and spawns the next reference, if there is one.
JoinsAndSpawnsOne ==
    (LoopIteration /\ dpc' # "panic") =>
        /\ iter' = IF iter < gbam_file.n THEN iter + 1 ELSE iter
        /\ CurrentSlot.some => CurrentSlot.ref_id \notin LiveRefs'
        /\ Joined' = IF CurrentSlot.some THEN Joined + 1 ELSE Joined

\* C20: with a ring of K >= 1 slots and workers that end, the loop ends; it
\* exits only with every reference spawned and joined and the ring empty,
\* each reference spawned once and joined once on the way.
C20_RingTermination ==
    /\ (dpc = "loop" /\ K >= 1) ~> (dpc \in {"exit", "panic"})
    /\ []OncePerReference
    /\ []ExitsWhenAllDone
    /\ [][JoinsAndSpawnsOne]_vars

\* The loop has exited after the ring wrapped around: more references than
\* slots, rows printed.
C20_Witness ==
    /\ dpc = "exit"
    /\ K >= 2
    /\ gbam_file.n > K
    /\ Len(printer) > 0

\* The decimal rendering of n: at least one digit, most significant first.
RECURSIVE Decimal(_)
Decimal(n) == IF n < 10 THEN <<n>> ELSE Append(Decimal(n \div 10), n % 10)

\* C21: every row written carries its chromosome, its coordinate in decimal
\* and its depth (at least 1) in decimal, each number with at least one
\* digit.
C21_RowFormat ==
    \A k \in 1..Len(printer) :
        /\ printer[k].cov >= 1
        /\ printer[k].coord = Decimal(printer[k].at)
        /\ printer[k].depth = Decimal(printer[k].cov)

\* Some read of the file covers the base at 0-based offset p of chr.
CoveredBase(chr, p) ==
    \E j \in 1..Len(gbam_file.records) :
        /\ gbam_file.records[j].refid = chr
        /\ gbam_file.records[j].pos <= p
        /\ p < gbam_file.records[j].pos + gbam_file.records[j].cov

\* C22: the coordinate of every row written is 1-based: it is p + 1 for a
\* covered base at 0-based offset p.
C22_OneBasedPositions ==
    \A k \in 1..Len(printer) :
        /\ printer[k].at >= 1
        /\ CoveredBase(printer[k].chr, printer[k].at - 1)

\* C28: the buffer each spawned worker was handed is all zeros over
\* [0, ref_len) once calc_depth has resized it, at the start of the scan.
C28_NoStaleBuffers ==
    \A k \in 1..Len(circular_buf_channels) :
        circular_buf_channels[k].some =>
            \A c \in 1..circular_buf_channels[k].ref_len :
                resize(circular_buf_channels[k].buf,
                       circular_buf_channels[k].ref_len)[c] = 0

\* C30: printing the intervals of a joined reference does not fail, and
\* every row it adds lies below the length of the coverage array.
C30_EmissionInBounds ==
    [][JoinsReturned =>
         /\ dpc' # "panic"
         /\ \A k \in (Len(printer) + 1)..Len(printer') :
                printer'[k].at < Len(CurrentSlot.ret)]_vars

\* The fixed-size fields, index fields included; each item is U32_SIZE wide.
FixedFields == {f \in FieldSet : field_type(f) = "FixedSized"}

ItemsPerBlock == SIZE_LIMIT \div U32_SIZE

\* The item counts of the footer blocks of field f, in order.
FooterItemsSeq(f) == [k \in 1..Len(Blocks(f)) |-> Blocks(f)[k].numitems]

\* Every entry of counts but the last is ItemsPerBlock; the last is between
\* 1 and ItemsPerBlock.
FullThenRest(counts) ==
    /\ \A k \in 1..(Len(counts) - 1) : counts[k] = ItemsPerBlock
    /\ Len(counts) > 0 =>
          counts[Len(counts)] >= 1 /\ counts[Len(counts)] <= ItemsPerBlock

\* C25: after finish every block of a fixed-size field but the last holds
\* floor(SIZE_LIMIT / w) items and the last between 1 and that many, in the
\* blocks submitted and in the footer.
C25_FixedFieldBlocks ==
    pc = "done" =>
      \A f \in FixedFields :
        /\ FullThenRest(NumItemsSeq(f))
        /\ FullThenRest(FooterItemsSeq(f))

\* Witness of C25: a finished file whose fixed-size fields have a full block
\* followed by a partly filled last block.
C25_Witness ==
    /\ pc = "done"
    /\ \A f \in FixedFields :
          /\ Len(Blocks(f)) >= 2
          /\ Blocks(f)[1].numitems = ItemsPerBlock
          /\ Blocks(f)[Len(Blocks(f))].numitems < ItemsPerBlock

\* The data-bearing fields and the index fields of the variable-sized ones.
StoredFields == DataFieldSet \cup {var_size_field_to_index(v) : v \in VarFields}

\* C26: after finish the footer blocks of every data-bearing field and of
\* every index field hold as many items as records were pushed, none of
\* them holds no item, and the writer's offsets and item counters are zero.
C26_ItemConservation ==
    pc = "done" =>
      \A f \in StoredFields :
        /\ SumSeq(FooterItemsSeq(f)) = pushed
        /\ \A k \in 1..Len(Blocks(f)) : Blocks(f)[k].numitems # 0
        /\ writer.offsets[f] = 0
        /\ writer.num_items[f] = 0

\* The bytes [seekpos, seekpos + block_size) of footer block k of field f.
BytesOf(f, k) ==
    Blocks(f)[k].seekpos..(Blocks(f)[k].seekpos + BlockSizes(f)[k] - 1)

FooterEntries == {e \in FieldSet \X (1..(MaxRecords + 2)) : e[2] <= Len(Blocks(e[1]))}

\* The payload writes of the sink's log, in the order of the writes (a
\* block is written when it is fetched from the pool), and where the footer
\* starts.
PayloadWrites == SelectSeq(writer.inner.log, LAMBDA e : e.what = "block")

MetaStart ==
    LET metas == SelectSeq(writer.inner.log, LAMBDA e : e.what = "meta")
    IN metas[1].at

\* C27: after finish the byte ranges of the footer blocks of all fields are
\* pairwise disjoint (together they have as many bytes as the sum of their
\* sizes) and cover [FILE_INFO_SIZE, meta_start) exactly, one after the
\* other in the order in which the blocks were fetched.
C27_PayloadLayout ==
    pc = "done" =>
      LET entries == FooterEntries
          range == [e \in entries |-> BytesOf(e[1], e[2])]
          writes == PayloadWrites
      IN  /\ \A f \in FieldSet : Len(BlockSizes(f)) = Len(Blocks(f))
          /\ Cardinality(UNION {range[e] : e \in entries})
                = SumSeq([k \in 1..Len(Fields) |-> SumSeq(BlockSizes(Fields[k]))])
          /\ UNION {range[e] : e \in entries}
                = FILE_INFO_SIZE..(MetaStart - 1)
          /\ \A i \in 1..Len(writes) :
                /\ writes[i].at =
                      IF i = 1 THEN FILE_INFO_SIZE
                      ELSE writes[i - 1].at + writes[i - 1].len
                /\ range[<<writes[i].field, writes[i].key + 1>>] =
                      writes[i].at..(writes[i].at + writes[i].len - 1)

\* Witness of C27: a finished file with at least two blocks in a field and
\* payloads of several fields between them.
C27_Witness ==
    /\ pc = "done"
    /\ Len(PayloadWrites) >= 5
    /\ \E f \in FieldSet : Len(Blocks(f)) >= 2
    /\ MetaStart > FILE_INFO_SIZE


\* ------------------------------------------------------------------------
\* The RawRecord accessor (gbam_tools/src/record.rs)
\* ------------------------------------------------------------------------
\* A record is [l_read_name, n_cigar_op, l_seq |-> the three header lengths,
\* len |-> the number of bytes of the record]; a slice of it is its offset
\* and its length.  Every record here holds the whole fixed header.
MaxCigarOps == 2

MaxSeqLen == 3

MaxAux == 2

U8_SIZE == 1

U16_SIZE == 2

HeaderSize == 32

\* The number of values of a u8.
U8Modulus == 256

\* The fields get_bytes supports, in the order of the record's bytes.
RecordFields ==
    <<"RefID", "Pos", "LName", "Mapq", "Bin", "NCigar", "Flags",
      "SequenceLength", "NextRefID", "NextPos", "TemplateLength",
      "ReadName", "RawCigar", "RawSequence", "RawQual", "RawTags">>

RecordFieldSet == {RecordFields[k] : k \in 1..Len(RecordFields)}

\* A value, or the panic that took its place.
Val(v) == [panicked |-> FALSE, why |-> "", val |-> v]

NoVal(why) == [panicked |-> TRUE, why |-> why, val |-> 0]

\* A slice, or the panic that took its place.
Sliced(offset, len) ==
    [panicked |-> FALSE, why |-> "", offset |-> offset, len |-> len]

Failed(why) == [panicked |-> TRUE, why |-> why, offset |-> 0, len |-> 0]

\* a + b on u8: past U8Modulus - 1 a build with overflow checks panics and a
\* build without them wraps.
add_u8(a, b, checks) ==
    IF a + b < U8Modulus THEN Val(a + b)
    ELSE IF checks THEN NoVal("attempt to add with overflow")
    ELSE Val((a + b) % U8Modulus)

\* a - b on usize: below zero a build with overflow checks panics and a
\* build without them wraps; the wrapped value 2^64 + (a - b) is written as
\* the negative number a - b.
sub_usize(a, b, checks) ==
    IF a >= b THEN Val(a - b)
    ELSE IF checks THEN NoVal("attempt to subtract with overflow")
    ELSE Val(a - b)

\* RawRecord::get_slice: &self.0[offset..offset + len].  A negative len is a
\* wrapped one: offset + len wraps back to the number offset + len when that
\* is not negative, and stays beyond every record otherwise.
get_slice(r, offset, len) ==
    LET end == offset + len
    IN  IF end < 0 \/ offset > end \/ end > r.len
        THEN Failed("slice index out of range")
        ELSE Sliced(offset, end - offset)

RECURSIVE get_offset(_, _, _)
RECURSIVE get_var_field_len(_, _, _)
\* RawRecord::get_offset, in usize.
get_offset(r, f, checks) ==
    CASE f = "ReadName" -> HeaderSize
      [] f = "RawCigar" ->
            get_offset(r, "ReadName", checks)
                + get_var_field_len(r, "ReadName", checks).val
      [] f = "RawSequence" ->
            get_offset(r, "RawCigar", checks)
                + get_var_field_len(r, "RawCigar", checks).val
      [] f = "RawQual" ->
            get_offset(r, "RawSequence", checks)
                + get_var_field_len(r, "RawSequence", checks).val
      [] f = "RawTags" ->
            get_offset(r, "RawQual", checks)
                + get_var_field_len(r, "RawQual", checks).val

\* RawRecord::get_var_field_len.
get_var_field_len(r, f, checks) ==
    CASE f = "ReadName" -> Val(r.l_read_name)
      [] f = "RawCigar" -> Val(U32_SIZE * r.n_cigar_op)
      [] f = "RawSequence" -> Val((r.l_seq + 1) \div 2)
      [] f = "RawQual" -> Val(r.l_seq)
      [] f = "RawTags" -> sub_usize(r.len, get_offset(r, "RawTags", checks), checks)

\* off + n in usize, where off may have panicked.
then_add(off, n) == IF off.panicked THEN off ELSE Val(off.val + n)

\* get_slice(off, len) where computing off or len may have panicked.
slice_of(r, off, len) ==
    IF off.panicked THEN Failed(off.why)
    ELSE IF len.panicked THEN Failed(len.why)
    ELSE get_slice(r, off.val, len.val)

\* RawRecord::get_bytes.  get_cigar_offset adds 32 and l_read_name as u8
\* before widening to usize.
RawRecord_get_bytes(r, f, checks) ==
    LET get_cigar_offset == add_u8(HeaderSize, r.l_read_name, checks)
        get_seq_offset == then_add(get_cigar_offset, U32_SIZE * r.n_cigar_op)
        get_qual_offset == then_add(get_seq_offset, (r.l_seq + 1) \div 2)
        get_tags_offset == then_add(get_qual_offset, r.l_seq)
    IN  CASE f = "RefID" -> get_slice(r, 0, U32_SIZE)
          [] f = "Pos" -> get_slice(r, 4, U32_SIZE)
          [] f = "LName" -> get_slice(r, 8, U8_SIZE)
          [] f = "Mapq" -> get_slice(r, 9, U8_SIZE)
          [] f = "Bin" -> get_slice(r, 10, U16_SIZE)
          [] f = "NCigar" -> get_slice(r, 12, U16_SIZE)
          [] f = "Flags" -> get_slice(r, 14, U16_SIZE)
          [] f = "SequenceLength" -> get_slice(r, 16, U32_SIZE)
          [] f = "NextRefID" -> get_slice(r, 20, U32_SIZE)
          [] f = "NextPos" -> get_slice(r, 24, U32_SIZE)
          [] f = "TemplateLength" -> get_slice(r, 28, U32_SIZE)
          [] f = "ReadName" ->
                slice_of(r, Val(HeaderSize), get_var_field_len(r, f, checks))
          [] f = "RawCigar" ->
                slice_of(r, get_cigar_offset, get_var_field_len(r, f, checks))
          [] f = "RawSequence" ->
                slice_of(r, get_seq_offset, get_var_field_len(r, f, checks))
          [] f = "RawQual" -> slice_of(r, get_qual_offset, Val(r.l_seq))
          [] f = "RawTags" ->
                slice_of(r, get_tags_offset,
                         IF get_tags_offset.panicked THEN get_tags_offset
                         ELSE sub_usize(r.len, get_tags_offset.val, checks))

\* The bytes the header lengths of a record ask for, header included.
BytesNeeded(a, c, s) == HeaderSize + a + U32_SIZE * c + (s + 1) \div 2 + s

\* The byte lengths of the records taken apart, for given header lengths:
\* the bare header, one byte short of what the header lengths ask for, or
\* that with up to MaxAux bytes of tags.
RecordLens(a, c, s) ==
    {HeaderSize}
        \cup {m \in (BytesNeeded(a, c, s) - 1)..(BytesNeeded(a, c, s) + MaxAux) :
                 m >= HeaderSize}

\* A record with any l_read_name of a u8, few CIGAR operations and bases,
\* and a build with or without overflow checks.
RInit ==
    /\ \E a \in 0..(U8Modulus - 1), c \in 0..MaxCigarOps, s \in 0..MaxSeqLen :
          \E n \in RecordLens(a, c, s) :
             raw = [l_read_name |-> a, n_cigar_op |-> c, l_seq |-> s, len |-> n]
    /\ overflow_checks \in BOOLEAN
    /\ asked = ""
    /\ view = Sliced(0, 0)
    /\ WIdle
    /\ DIdle

\* get_bytes, called once on the record, returns a slice of it.
GetBytes ==
    /\ asked = ""
    /\ \E f \in RecordFieldSet :
          /\ ~RawRecord_get_bytes(raw, f, overflow_checks).panicked
          /\ asked' = f
          /\ view' = RawRecord_get_bytes(raw, f, overflow_checks)
    /\ UNCHANGED <<raw, overflow_checks, wvars, dvars>>

\* get_bytes, called once on the record, panics.
GetBytesPanic ==
    /\ asked = ""
    /\ \E f \in RecordFieldSet :
          /\ RawRecord_get_bytes(raw, f, overflow_checks).panicked
          /\ asked' = f
          /\ view' = RawRecord_get_bytes(raw, f, overflow_checks)
    /\ UNCHANGED <<raw, overflow_checks, wvars, dvars>>

RNext ==
    \/ GetBytes
    \/ GetBytesPanic

SpecRecord == RInit /\ [][RNext]_vars


\* The variable-size fields of a record, in the order of its bytes.
VariableRecordFields ==
    {"ReadName", "RawCigar", "RawSequence", "RawQual", "RawTags"}

\* The fields whose offset get_bytes computes from l_read_name.
ChainedFields == VariableRecordFields \ {"ReadName"}

\* C29: for RawCigar, RawSequence, RawQual and RawTags, get_bytes never
\* fails on an overflowing addition, and a slice it returns starts at the
\* offset get_offset computes for the field.
C29_OffsetsAgree ==
    asked \in ChainedFields =>
        /\ view.why # "attempt to add with overflow"
        /\ ~view.panicked =>
              view.offset = get_offset(raw, asked, overflow_checks)

\* A record whose bytes hold all that its header lengths ask for.
WellFormed(r) == r.len >= BytesNeeded(r.l_read_name, r.n_cigar_op, r.l_seq)

\* The position of a field in the order of the record's bytes.
FieldIndex(f) == CHOOSE k \in 1..Len(RecordFields) : RecordFields[k] = f

RECURSIVE FieldStart(_, _)
\* The length a field has by the layout of a record: its fixed width, the
\* length the header gives, or for the tags what is left of the record.
FieldLen(r, f) ==
    CASE f \in {"LName", "Mapq"} -> 1
      [] f \in {"Bin", "NCigar", "Flags"} -> 2
      [] f \in {"RefID", "Pos", "SequenceLength", "NextRefID", "NextPos",
                "TemplateLength"} -> 4
      [] f = "ReadName" -> r.l_read_name
      [] f = "RawCigar" -> 4 * r.n_cigar_op
      [] f = "RawSequence" -> (r.l_seq + 1) \div 2
      [] f = "RawQual" -> r.l_seq
      [] f = "RawTags" -> r.len - FieldStart(r, FieldIndex(f))

\* Where the k-th field starts when the fields follow one another from
\* byte 0.
FieldStart(r, k) ==
    IF k = 1 THEN 0
    ELSE FieldStart(r, k - 1) + FieldLen(r, RecordFields[k - 1])

\* C23: on a well-formed record get_bytes returns, for every supported
\* field, a slice of the field's length that lies inside the record and
\* starts where the fields before it end, so that the header fields tile
\* bytes 0..32 and the variable fields tile the rest in order.
C23_FieldsTileRecord ==
    asked # "" /\ WellFormed(raw) =>
        /\ ~view.panicked
        /\ view.len = FieldLen(raw, asked)
        /\ view.offset = FieldStart(raw, FieldIndex(asked))
        /\ view.offset + view.len <= raw.len
        /\ FieldStart(raw, FieldIndex("ReadName")) = HeaderSize

\* The header lengths place field f past the end of the record.
Beyond(r, f) ==
    FieldStart(r, FieldIndex(f))
        + (IF f = "RawTags" THEN 0 ELSE FieldLen(r, f)) > r.len

\* C24: extracting a variable field that the header lengths place past the
\* end of the record fails; no slice is returned for it.
C24_MalformedFails ==
    asked \in VariableRecordFields /\ Beyond(raw, asked) => view.panicked

====
